---- MODULE Spec2Model ----
(***************************************************************************)
(* State-machine model of the membership backend in src/server.js.         *)
(*                                                                         *)
(* Every HTTP request is a record in reqs.  A handler runs on a            *)
(* single-threaded event loop: the code between two awaits is atomic, and  *)
(* other requests run at every await.  An action of the model is therefore *)
(* one such atomic stretch, taken together with the one store operation it *)
(* waits for (the instant at which the store executes it is arbitrary in   *)
(* either formulation).  A store operation may fail; a failure inside a    *)
(* try block goes to its catch, a failure outside any try rejects the      *)
(* handler's promise, and the code then writes no response: express 4      *)
(* leaves the request open, express 5 answers 500 from its default error   *)
(* handler.  The sources do not fix the version; both outcomes are taken.  *)
(***************************************************************************)
EXTENDS Integers, Sequences, FiniteSets, TLC

\* ------------------------------------------------------------------ bounds
MaxReq == 2          \* requests received in one behaviour
MaxTime == 2         \* last value of the clock
MaxFilesPerReq == 2  \* file parts in one multipart request
MaxMultipart == 1    \* requests received in one behaviour of SpecAdmin

\* ------------------------------------------------------- program constants
ExpiresIn == 1       \* jwt.sign(..., { expiresIn: '1h' }); the clock counts hours

Missing == "undefined"     \* an absent body field (falsy in the handlers)
NoToken == [sig |-> "none", id |-> 0, role |-> "none", iat |-> 0, exp |-> 0]
NoDoc == [id |-> 0]
NoName == <<>>             \* no imageUrl / videoUrl
NoBody == <<>>             \* a body the route has not parsed

Emails == {"a@x", "b@x"}
AdminEmail == "root@x"
Passwords == {"p", "q"}

VARIABLES
  users,      \* User collection
  members,    \* Member collection
  news,       \* News collection
  contacts,   \* Contact collection
  files,      \* public/uploads: path -> the written file there, <<request, part>>
  issued,     \* tokens handed out by /api/login
  now,        \* Date.now()
  nextId,     \* source of fresh _id values
  reqs        \* the requests received so far, in order of arrival

vars == <<users, members, news, contacts, files, issued, now, nextId, reqs>>
stores == <<users, members, news, contacts, files>>

\* ----------------------------------------------------------------- helpers

\* bcrypt.hash(password, 10): a one-way hash, told apart from the password
bcryptHash(password) == <<"bcrypt", password>>

\* a comparison that accepts every password
bcryptCompareAny(password, hash) == TRUE

\* bcrypt.compare(password, hash)
bcryptCompare(password, hash) == hash = bcryptHash(password)

\* jwt.sign({id, role}, JWT_SECRET, {expiresIn: '1h'})
jwtSign(user, t) ==
  [sig |-> "ok", id |-> user.id, role |-> user.role, iat |-> t, exp |-> t + ExpiresIn]

\* a verification that forgets the exp claim
jwtVerifyNoExpiry(token, t) == token.sig = "ok"

\* jwt.verify(token, JWT_SECRET): TRUE when the callback gets no error
jwtVerify(token, t) == token.sig = "ok" /\ t < token.exp

\* a token made by somebody who does not know JWT_SECRET
Forged == [sig |-> "bad", id |-> 1, role |-> "admin", iat |-> 0, exp |-> 1000]

\* verifyToken: 0 when next() is called, else the status of the response
verifyToken(token, t) ==
  IF token = NoToken THEN 401
  ELSE IF ~jwtVerify(token, t) THEN 403
  ELSE 0

\* a role check that lets every verified role through
isAdminAnyRole(role) == 0

\* isAdmin: 0 when next() is called, else 403
isAdmin(role) == IF role # "admin" THEN 403 ELSE 0

\* app.get('/api/user', verifyToken, ...): the chain of a token-protected route
Authenticated(token, t) == verifyToken(token, t)

\* app.<method>(path, verifyToken, isAdmin, ...): the chain of an admin-only route;
\* isAdmin reads the req.userRole that verifyToken took from the token
AdminOnly(token, t) ==
  IF verifyToken(token, t) # 0 THEN verifyToken(token, t) ELSE isAdmin(token.role)

\* what a client can put in the Authorization header
Presentable == {NoToken, Forged} \cup issued

\* ---------------------------------------------------------------- requests
\* body, id and parts (the file parts read so far) are what the client sent;
\* stored is req.files, doc the document a handler holds, resp the payload sent.
\* at (when the request arrived), fault (what failed under it), made (the _id of
\* the record it inserted) and unlinked (the written files it deleted) record
\* what happened to the request; no handler reads them.
NewReq(op, token, body, id) ==
  [op |-> op, pc |-> "new", status |-> 0, at |-> now, token |-> token, body |-> body,
   id |-> id, parts |-> <<>>, stored |-> <<>>, doc |-> NoDoc, resp |-> <<>>,
   fault |-> "none", made |-> 0, unlinked |-> {}]

\* res.status(s).json(...) ending the request
Respond(r, s) == [r EXCEPT !.pc = "done", !.status = s]
\* a store operation failed inside a try block: the catch answers s
Caught(r, s) == [r EXCEPT !.pc = "done", !.status = s, !.fault = "store"]
\* a promise rejects outside any try and nothing handles it: no response is written
Reject(r, what) == [r EXCEPT !.pc = "rejected", !.fault = what]
\* the promise of an async route handler rejects: express 5 forwards the error
\* to its default error handler, which answers 500; express 4 drops it
Thrown(r, what, forwarded) ==
  IF forwarded THEN [r EXCEPT !.pc = "done", !.status = 500, !.fault = what]
  ELSE Reject(r, what)

CanArrive == Len(reqs) < MaxReq

\* ------------------------------------------------------------------- clock
Tick ==
  /\ now < MaxTime
  /\ now' = now + 1
  /\ UNCHANGED <<users, members, news, contacts, files, issued, nextId, reqs>>

\* ---------------------------------------------------------- authentication
CredentialBodies ==
  [email : Emails \cup {AdminEmail, Missing}, password : Passwords \cup {Missing}]

\* the unique index of the User collection on email
UniqueEmail(doc) == \A u \in users : u.email # doc.email

\* POST /api/register, up to the await of bcrypt.hash
Register ==
  /\ CanArrive
  /\ \E body \in CredentialBodies, dbOk \in BOOLEAN :
       LET r == NewReq("register", NoToken, body, 0) IN
       reqs' = Append(reqs,
         IF body.email = Missing \/ body.password = Missing THEN Respond(r, 400)
         ELSE IF ~dbOk THEN Caught(r, 500)
         ELSE IF \E u \in users : u.email = body.email THEN Respond(r, 400)
         ELSE [r EXCEPT !.pc = "save",
                        !.doc = [id |-> 0, email |-> body.email,
                                 password |-> bcryptHash(body.password), role |-> "user"]])
  /\ UNCHANGED <<users, members, news, contacts, files, issued, now, nextId>>

\* POST /api/register: await user.save() and the response
RegisterSave(i) ==
  /\ reqs[i].op = "register" /\ reqs[i].pc = "save"
  /\ \E dbOk \in BOOLEAN :
       IF dbOk /\ UniqueEmail(reqs[i].doc)
       THEN /\ users' = users \cup {[reqs[i].doc EXCEPT !.id = nextId]}
            /\ nextId' = nextId + 1
            /\ reqs' = [reqs EXCEPT ![i] = [Respond(@, 201) EXCEPT !.made = nextId]]
       ELSE /\ reqs' = [reqs EXCEPT ![i] = Caught(@, 500)]
            /\ UNCHANGED <<users, nextId>>
  /\ UNCHANGED <<members, news, contacts, files, issued, now>>

\* POST /api/login
Login ==
  /\ CanArrive
  /\ \E body \in CredentialBodies, dbOk \in BOOLEAN, forwarded \in BOOLEAN :
       LET r == NewReq("login", NoToken, body, 0)
           found == {u \in users : u.email = body.email}
       IN
       IF ~dbOk THEN
         /\ reqs' = Append(reqs, Thrown(r, "store", forwarded))
         /\ UNCHANGED issued
       ELSE IF found = {} THEN
         /\ reqs' = Append(reqs, Respond(r, 401))
         /\ UNCHANGED issued
       ELSE \E user \in found :
         IF body.password = Missing THEN
           /\ reqs' = Append(reqs, Thrown(r, "bcrypt", forwarded))
           /\ UNCHANGED issued
         ELSE IF ~bcryptCompare(body.password, user.password) THEN
           /\ reqs' = Append(reqs, Respond(r, 401))
           /\ UNCHANGED issued
         ELSE
           /\ reqs' = Append(reqs, [Respond(r, 200) EXCEPT !.resp = <<jwtSign(user, now)>>])
           /\ issued' = issued \cup {jwtSign(user, now)}
  /\ UNCHANGED <<users, members, news, contacts, files, now, nextId>>

\* GET /api/user
GetUser ==
  /\ CanArrive
  /\ \E token \in Presentable, dbOk \in BOOLEAN, forwarded \in BOOLEAN :
       LET r == NewReq("getUser", token, <<>>, 0) IN
       reqs' = Append(reqs,
         IF Authenticated(token, now) # 0 THEN Respond(r, Authenticated(token, now))
         ELSE IF ~dbOk THEN Thrown(r, "store", forwarded)
         ELSE Respond(r, 200))
  /\ UNCHANGED <<users, members, news, contacts, files, issued, now, nextId>>

\* ------------------------------------------------------------ Upload Intake
FileSizeLimit == 10  \* limits: { fileSize: 10 * 1024 * 1024 }; sizes count MiB

\* the parts a multipart request can carry
UploadFiles ==
  { [fieldname |-> "passportPhotos", originalname |-> "a", mimetype |-> "image/png", size |-> 1],
    [fieldname |-> "passportPhotos", originalname |-> "a", mimetype |-> "application/pdf", size |-> 1],
    [fieldname |-> "image", originalname |-> "a", mimetype |-> "image/png", size |-> 1],
    [fieldname |-> "video", originalname |-> "b", mimetype |-> "video/mp4", size |-> 1],
    [fieldname |-> "image", originalname |-> "b", mimetype |-> "image/png", size |-> 11] }

\* storage.filename: Date.now() + '-' + file.originalname
filename(t, file) == <<t, "-", file.originalname>>

\* storage.destination + filename: where the file is written
DiskPath(name) == <<"public", "/uploads/", name>>

\* `/uploads/${file.filename}`
Url(name) == <<"/uploads/", name>>

\* `public${news.imageUrl}`
PathOfUrl(url) == <<"public">> \o url

\* a filter that looks at no content type
fileFilterAcceptAll(file) == TRUE

\* upload's fileFilter: TRUE when the file is accepted
fileFilter(file) ==
  ~(file.fieldname = "passportPhotos"
    /\ file.mimetype \notin {"image/jpeg", "image/jpg", "image/png"})

\* multer removing what a failed request has written
RemoveUploaded(fs, paths) == [p \in DOMAIN fs \ paths |-> fs[p]]

StoredPaths(r) == {DiskPath(r.stored[k].filename) : k \in 1..Len(r.stored)}

\* upload(req, res, cb) reading the next file part of the request's stream.  A
\* part the filter refuses, or one that grows past the size limit while it is
\* written, ends the upload: multer removes the request's files and calls cb(err).
UploadFile(i) ==
  /\ reqs[i].pc = "upload" /\ Len(reqs[i].stored) < MaxFilesPerReq
  /\ \E file \in UploadFiles :
     LET r == [reqs[i] EXCEPT !.parts = Append(@, file)]
         name == filename(now, file)
     IN
     IF ~fileFilter(file) THEN
       /\ files' = RemoveUploaded(files, StoredPaths(r))
       /\ reqs' = [reqs EXCEPT ![i] = Respond(r, 400)]
     ELSE IF file.size > FileSizeLimit THEN
       /\ files' = RemoveUploaded(files, StoredPaths(r) \cup {DiskPath(name)})
       /\ reqs' = [reqs EXCEPT ![i] = Respond(r, 400)]
     ELSE
       /\ files' = [p \in DOMAIN files \cup {DiskPath(name)} |->
                      IF p = DiskPath(name) THEN <<i, Len(r.stored) + 1>> ELSE files[p]]
       /\ reqs' = [reqs EXCEPT ![i] =
            [r EXCEPT !.stored = Append(r.stored,
                         [fieldname |-> file.fieldname, filename |-> name,
                          mimetype |-> file.mimetype])]]
  /\ UNCHANGED <<users, members, news, contacts, issued, now, nextId>>

\* ------------------------------------------------------------------ members
RequiredMemberFields ==
  {"surname", "otherNames", "dateOfBirth", "gender", "occupation", "qualification",
   "localGovernmentOfOrigin", "residentialAddress", "phone", "nextOfKin",
   "enrollmentStatus", "dateEnrollment", "shortFarmHistory", "cropVariety",
   "farmingExperience", "irrigationMethod", "location", "farmSize", "contact"}

\* the fields a body carries (non-empty)
MemberBodies ==
  { RequiredMemberFields \cup {"refereeLgaCoordinator", "refereeGroupCoordinator",
                               "membershipStatus"},
    RequiredMemberFields \ {"contact"} }

\* GET /api/members
ListMembers ==
  /\ CanArrive
  /\ \E token \in Presentable, dbOk \in BOOLEAN, forwarded \in BOOLEAN :
       LET r == NewReq("listMembers", token, <<>>, 0) IN
       reqs' = Append(reqs,
         IF AdminOnly(token, now) # 0 THEN Respond(r, AdminOnly(token, now))
         ELSE IF ~dbOk THEN Thrown(r, "store", forwarded)
         ELSE Respond(r, 200))
  /\ UNCHANGED <<users, members, news, contacts, files, issued, now, nextId>>

\* POST /api/members: the chain, then upload(req, res, ...) starts
CreateMember ==
  /\ CanArrive
  /\ \E token \in Presentable :
       LET r == NewReq("createMember", token, NoBody, 0) IN
       reqs' = Append(reqs,
         IF AdminOnly(token, now) # 0 THEN Respond(r, AdminOnly(token, now))
         ELSE [r EXCEPT !.pc = "upload"])
  /\ UNCHANGED <<users, members, news, contacts, files, issued, now, nextId>>

\* memberData.passportPhotos = req.files.map(file => `/uploads/${file.filename}`)
PassportPhotos(stored) == [k \in 1..Len(stored) |-> Url(stored[k].filename)]

\* POST /api/members: the callback of upload, without error, at the end of the
\* request's stream
CreateMemberSave(i) ==
  /\ reqs[i].op = "createMember" /\ reqs[i].pc = "upload"
  /\ \E body \in MemberBodies, dbOk \in BOOLEAN :
       LET r == [reqs[i] EXCEPT !.body = body] IN
       IF ~(RequiredMemberFields \subseteq r.body) THEN
         /\ reqs' = [reqs EXCEPT ![i] = Respond(r, 400)]
         /\ UNCHANGED <<members, nextId>>
       ELSE IF ~dbOk THEN
         /\ reqs' = [reqs EXCEPT ![i] = Caught(r, 500)]
         /\ UNCHANGED <<members, nextId>>
       ELSE
         /\ members' = members \cup
              {[id |-> nextId, fields |-> r.body, passportPhotos |-> PassportPhotos(r.stored)]}
         /\ nextId' = nextId + 1
         /\ reqs' = [reqs EXCEPT ![i] = [Respond(r, 201) EXCEPT !.made = nextId]]
  /\ UNCHANGED <<users, news, contacts, files, issued, now>>

\* GET /api/members/:id
GetMember ==
  /\ CanArrive
  /\ \E token \in Presentable, id \in {m.id : m \in members} \cup {0}, dbOk \in BOOLEAN :
       LET r == NewReq("getMember", token, <<>>, id) IN
       reqs' = Append(reqs,
         IF AdminOnly(token, now) # 0 THEN Respond(r, AdminOnly(token, now))
         ELSE IF ~dbOk THEN Caught(r, 500)
         ELSE IF ~(\E m \in members : m.id = id) THEN Respond(r, 404)
         ELSE Respond(r, 200))
  /\ UNCHANGED <<users, members, news, contacts, files, issued, now, nextId>>

\* --------------------------------------------------------------------- news
NewsBodies == {[title |-> "t", description |-> "d"], [title |-> "t", description |-> Missing]}

\* req.files.forEach(file => { if (file.fieldname === 'image') newsData.imageUrl = ... })
LastUrl(stored, field) ==
  LET at == {k \in 1..Len(stored) : stored[k].fieldname = field} IN
  IF at = {} THEN NoName
  ELSE Url(stored[CHOOSE k \in at : \A j \in at : j <= k].filename)

\* News.find().sort({ createdAt: -1 }): the orders the store may return
NewestFirst ==
  {s \in [1..Cardinality(news) -> news] :
     /\ \A j, k \in 1..Cardinality(news) : j < k => s[j] # s[k]
     /\ \A j, k \in 1..Cardinality(news) : j < k => s[j].createdAt >= s[k].createdAt}

\* GET /api/news
ListNews ==
  /\ CanArrive
  /\ \E dbOk \in BOOLEAN, forwarded \in BOOLEAN, list \in NewestFirst :
       LET r == NewReq("listNews", NoToken, <<>>, 0) IN
       reqs' = Append(reqs,
         IF ~dbOk THEN Thrown(r, "store", forwarded)
         ELSE [Respond(r, 200) EXCEPT !.resp = [k \in 1..Len(list) |-> list[k].id]])
  /\ UNCHANGED <<users, members, news, contacts, files, issued, now, nextId>>

\* POST /api/news: the chain, then the upload middleware starts
CreateNews ==
  /\ CanArrive
  /\ \E token \in Presentable :
       LET r == NewReq("createNews", token, NoBody, 0) IN
       reqs' = Append(reqs,
         IF AdminOnly(token, now) # 0 THEN Respond(r, AdminOnly(token, now))
         ELSE [r EXCEPT !.pc = "upload"])
  /\ UNCHANGED <<users, members, news, contacts, files, issued, now, nextId>>

\* POST /api/news: the handler after upload called next()
CreateNewsSave(i) ==
  /\ reqs[i].op = "createNews" /\ reqs[i].pc = "upload"
  /\ \E body \in NewsBodies, dbOk \in BOOLEAN, forwarded \in BOOLEAN :
       LET r == [reqs[i] EXCEPT !.body = body] IN
       IF r.body.title = Missing \/ r.body.description = Missing THEN
         /\ reqs' = [reqs EXCEPT ![i] = Respond(r, 400)]
         /\ UNCHANGED <<news, nextId>>
       ELSE IF ~dbOk THEN
         /\ reqs' = [reqs EXCEPT ![i] = Thrown(r, "store", forwarded)]
         /\ UNCHANGED <<news, nextId>>
       ELSE
         /\ news' = news \cup
              {[id |-> nextId, title |-> r.body.title, description |-> r.body.description,
                imageUrl |-> LastUrl(r.stored, "image"),
                videoUrl |-> LastUrl(r.stored, "video"), createdAt |-> now]}
         /\ nextId' = nextId + 1
         /\ reqs' = [reqs EXCEPT ![i] = [Respond(r, 201) EXCEPT !.made = nextId]]
  /\ UNCHANGED <<users, members, contacts, files, issued, now>>

NewsIds == {n.id : n \in news} \cup {0}

\* PUT /api/news/:id: the chain, then the upload middleware starts
UpdateNews ==
  /\ CanArrive
  /\ \E token \in Presentable, id \in NewsIds :
       LET r == NewReq("updateNews", token, NoBody, id) IN
       reqs' = Append(reqs,
         IF AdminOnly(token, now) # 0 THEN Respond(r, AdminOnly(token, now))
         ELSE [r EXCEPT !.pc = "upload"])
  /\ UNCHANGED <<users, members, news, contacts, files, issued, now, nextId>>

\* News.findByIdAndUpdate(id, newsData): only the keys of newsData are set
Updated(n, r) ==
  [n EXCEPT !.title = r.body.title, !.description = r.body.description,
            !.imageUrl = IF LastUrl(r.stored, "image") = NoName THEN @
                         ELSE LastUrl(r.stored, "image"),
            !.videoUrl = IF LastUrl(r.stored, "video") = NoName THEN @
                         ELSE LastUrl(r.stored, "video")]

\* PUT /api/news/:id: the handler after upload called next()
UpdateNewsSave(i) ==
  /\ reqs[i].op = "updateNews" /\ reqs[i].pc = "upload"
  /\ \E body \in NewsBodies, dbOk \in BOOLEAN, forwarded \in BOOLEAN :
       LET r == [reqs[i] EXCEPT !.body = body] IN
       IF r.body.title = Missing \/ r.body.description = Missing THEN
         /\ reqs' = [reqs EXCEPT ![i] = Respond(r, 400)]
         /\ UNCHANGED news
       ELSE IF ~dbOk THEN
         /\ reqs' = [reqs EXCEPT ![i] = Thrown(r, "store", forwarded)]
         /\ UNCHANGED news
       ELSE IF ~(\E n \in news : n.id = r.id) THEN
         /\ reqs' = [reqs EXCEPT ![i] = Respond(r, 404)]
         /\ UNCHANGED news
       ELSE
         /\ news' = {IF n.id = r.id THEN Updated(n, r) ELSE n : n \in news}
         /\ reqs' = [reqs EXCEPT ![i] = Respond(r, 200)]
  /\ UNCHANGED <<users, members, contacts, files, issued, now, nextId>>

\* DELETE /api/news/:id: the chain and await News.findById(id)
DeleteNews ==
  /\ CanArrive
  /\ \E token \in Presentable, id \in NewsIds, dbOk \in BOOLEAN :
       LET r == NewReq("deleteNews", token, <<>>, id) IN
       reqs' = Append(reqs,
         IF AdminOnly(token, now) # 0 THEN Respond(r, AdminOnly(token, now))
         ELSE IF ~dbOk THEN Caught(r, 500)
         ELSE IF ~(\E n \in news : n.id = id) THEN Respond(r, 404)
         ELSE [r EXCEPT !.pc = "unlink", !.doc = CHOOSE n \in news : n.id = id])
  /\ UNCHANGED <<users, members, news, contacts, files, issued, now, nextId>>

\* the paths DELETE /api/news/:id unlinks for the document it read
MediaPaths(doc) ==
  {PathOfUrl(u) : u \in {doc.imageUrl, doc.videoUrl} \ {NoName}}

\* a deletion that leaves the files where they are
UnlinkNone(fs, paths) == fs

\* fs.existsSync / fs.unlinkSync on each of `paths`
UnlinkAll(fs, paths) == [p \in DOMAIN fs \ paths |-> fs[p]]

\* DELETE /api/news/:id: the two unlinks, up to await News.findByIdAndDelete(id);
\* an unlink that throws goes to the catch
DeleteNewsUnlink(i) ==
  /\ reqs[i].op = "deleteNews" /\ reqs[i].pc = "unlink"
  /\ \E fsOk \in BOOLEAN :
       LET r == reqs[i] IN
       IF ~fsOk /\ MediaPaths(r.doc) \cap DOMAIN files # {} THEN
         /\ reqs' = [reqs EXCEPT ![i] = [Respond(r, 500) EXCEPT !.fault = "fs"]]
         /\ UNCHANGED files
       ELSE
         /\ files' = UnlinkAll(files, MediaPaths(r.doc))
         /\ reqs' = [reqs EXCEPT ![i] =
              [r EXCEPT !.pc = "remove",
                        !.unlinked = {files[p] : p \in MediaPaths(r.doc) \cap DOMAIN files}]]
  /\ UNCHANGED <<users, members, news, contacts, issued, now, nextId>>

\* DELETE /api/news/:id: await News.findByIdAndDelete(id) and the response
DeleteNewsRemove(i) ==
  /\ reqs[i].op = "deleteNews" /\ reqs[i].pc = "remove"
  /\ \E dbOk \in BOOLEAN :
       IF dbOk
       THEN /\ news' = {n \in news : n.id # reqs[i].id}
            /\ reqs' = [reqs EXCEPT ![i] = Respond(@, 200)]
       ELSE /\ reqs' = [reqs EXCEPT ![i] = Caught(@, 500)]
            /\ UNCHANGED news
  /\ UNCHANGED <<users, members, contacts, files, issued, now, nextId>>

\* ------------------------------------------------------------------ contact
ContactBodies ==
  [name : {"A", Missing}, email : {"a@b.com", Missing}, message : {"hi", Missing}]

\* POST /api/contact, up to await contact.save()
Contact ==
  /\ CanArrive
  /\ \E body \in ContactBodies, dbOk \in BOOLEAN, forwarded \in BOOLEAN :
       LET r == NewReq("contact", NoToken, body, 0) IN
       IF body.name = Missing \/ body.email = Missing \/ body.message = Missing THEN
         /\ reqs' = Append(reqs, Respond(r, 400))
         /\ UNCHANGED <<contacts, nextId>>
       ELSE IF ~dbOk THEN
         /\ reqs' = Append(reqs, Thrown(r, "store", forwarded))
         /\ UNCHANGED <<contacts, nextId>>
       ELSE
         /\ contacts' = contacts \cup
              {[id |-> nextId, name |-> body.name, email |-> body.email,
                message |-> body.message]}
         /\ nextId' = nextId + 1
         /\ reqs' = Append(reqs, [r EXCEPT !.pc = "relay", !.made = nextId])
  /\ UNCHANGED <<users, members, news, files, issued, now>>

\* a relay step that undoes the save and answers 500 when the mail fails
ContactRelayRollback(i) ==
  /\ reqs[i].op = "contact" /\ reqs[i].pc = "relay"
  /\ \E mailOk \in BOOLEAN :
       IF mailOk
       THEN /\ reqs' = [reqs EXCEPT ![i] =
                 [Respond(@, 201) EXCEPT !.resp = <<"Message sent successfully">>]]
            /\ UNCHANGED contacts
       ELSE /\ reqs' = [reqs EXCEPT ![i] = Respond(@, 500)]
            /\ contacts' = {c \in contacts : c.id # reqs[i].made}
  /\ UNCHANGED <<users, members, news, files, issued, now, nextId>>

\* POST /api/contact: await transporter.sendMail(mailOptions) and either response
ContactRelay(i) ==
  /\ reqs[i].op = "contact" /\ reqs[i].pc = "relay"
  /\ \E mailOk \in BOOLEAN :
       reqs' = [reqs EXCEPT ![i] =
         [Respond(@, 201) EXCEPT !.resp =
            IF mailOk THEN <<"Message sent successfully">>
            ELSE <<"Message saved, but email notification failed">>]]
  /\ UNCHANGED <<users, members, news, contacts, files, issued, now, nextId>>

\* ------------------------------------------------------------ specification
\* the account an operator seeded: /api/register only ever makes role 'user'
Admin == [id |-> 1, email |-> AdminEmail, password |-> bcryptHash("p"), role |-> "admin"]

\* a database holding the seeded administrator, nothing else
Init ==
  /\ users = {Admin}
  /\ members = {}
  /\ news = {}
  /\ contacts = {}
  /\ files = <<>>
  /\ issued = {}
  /\ now = 0
  /\ nextId = 2
  /\ reqs = <<>>

\* The same application later on: a@x has registered, the administrator has
\* created a member and posted a news item with an image, both accounts have
\* logged in at time 0.  The requests that did so have been answered.
Farmer == [id |-> 2, email |-> "a@x", password |-> bcryptHash("q"), role |-> "user"]
SeedImage == filename(0, [originalname |-> "a"])

InitSeeded ==
  /\ users = {Admin, Farmer}
  /\ members = {[id |-> 3, fields |-> RequiredMemberFields, passportPhotos |-> <<>>]}
  /\ news = {[id |-> 4, title |-> "t", description |-> "d", imageUrl |-> Url(SeedImage),
              videoUrl |-> NoName, createdAt |-> 0]}
  /\ contacts = {}
  /\ files = (DiskPath(SeedImage) :> <<0, 1>>)
  /\ issued = {jwtSign(Admin, 0), jwtSign(Farmer, 0)}
  /\ now = 0
  /\ nextId = 5
  /\ reqs = <<>>

\* requests without file parts: every route, the clock, no Upload Intake
NextApi ==
  \/ Tick
  \/ Register
  \/ \E i \in 1..Len(reqs) : RegisterSave(i)
  \/ Login
  \/ GetUser
  \/ ListMembers
  \/ CreateMember
  \/ \E i \in 1..Len(reqs) : CreateMemberSave(i)
  \/ GetMember
  \/ ListNews
  \/ CreateNews
  \/ \E i \in 1..Len(reqs) : CreateNewsSave(i)
  \/ UpdateNews
  \/ \E i \in 1..Len(reqs) : UpdateNewsSave(i)
  \/ DeleteNews
  \/ \E i \in 1..Len(reqs) : DeleteNewsUnlink(i)
  \/ \E i \in 1..Len(reqs) : DeleteNewsRemove(i)
  \/ Contact
  \/ \E i \in 1..Len(reqs) : ContactRelay(i)

SpecApi == InitSeeded /\ [][NextApi]_vars

\* registration and login on the fresh database
NextAuth ==
  \/ Register
  \/ \E i \in 1..Len(reqs) : RegisterSave(i)
  \/ Login
  \/ GetUser

SpecAuth == Init /\ [][NextAuth]_vars

\* sessions on the fresh database: login, the clock, and every protected route
\* with a request that carries no file part
NextGate ==
  \/ Tick
  \/ Login
  \/ GetUser
  \/ ListMembers
  \/ CreateMember
  \/ \E i \in 1..Len(reqs) : CreateMemberSave(i)
  \/ GetMember
  \/ CreateNews
  \/ \E i \in 1..Len(reqs) : CreateNewsSave(i)
  \/ UpdateNews
  \/ \E i \in 1..Len(reqs) : UpdateNewsSave(i)
  \/ DeleteNews

SpecGate == Init /\ [][NextGate]_vars

\* the admin-only routes with Upload Intake, within one reading of the clock
NextAdmin ==
  \/ Len(reqs) < MaxMultipart /\ ListMembers
  \/ Len(reqs) < MaxMultipart /\ GetMember
  \/ Len(reqs) < MaxMultipart /\ CreateMember
  \/ \E i \in 1..Len(reqs) : UploadFile(i)
  \/ \E i \in 1..Len(reqs) : CreateMemberSave(i)
  \/ Len(reqs) < MaxMultipart /\ CreateNews
  \/ \E i \in 1..Len(reqs) : CreateNewsSave(i)
  \/ Len(reqs) < MaxMultipart /\ UpdateNews
  \/ \E i \in 1..Len(reqs) : UpdateNewsSave(i)
  \/ Len(reqs) < MaxMultipart /\ DeleteNews
  \/ \E i \in 1..Len(reqs) : DeleteNewsUnlink(i)
  \/ \E i \in 1..Len(reqs) : DeleteNewsRemove(i)

SpecAdmin == InitSeeded /\ [][NextAdmin]_vars

\* the same routes while the clock advances
NextAdminClock ==
  \/ Tick
  \/ NextAdmin

SpecAdminClock == InitSeeded /\ [][NextAdminClock]_vars

\* reading, updating and deleting news
NextNews ==
  \/ ListNews
  \/ UpdateNews
  \/ \E i \in 1..Len(reqs) : UpdateNewsSave(i)
  \/ DeleteNews
  \/ \E i \in 1..Len(reqs) : DeleteNewsUnlink(i)
  \/ \E i \in 1..Len(reqs) : DeleteNewsRemove(i)

SpecNews == InitSeeded /\ [][NextNews]_vars

\* the contact form
NextContact ==
  \/ Tick
  \/ Contact
  \/ \E i \in 1..Len(reqs) : ContactRelay(i)

SpecContact == Init /\ [][NextContact]_vars

\* ================================================================== claims
Requests == 1..Len(reqs)

\* request i is new in, or changed by, the step
Touched(i) == i > Len(reqs) \/ reqs'[i] # reqs[i]

AdminRoutes ==
  {"listMembers", "createMember", "getMember", "createNews", "updateNews", "deleteNews"}
ProtectedRoutes == AdminRoutes \cup {"getUser"}

\* ---- C1
\* r is a request to an admin-only route with a validly signed token, unexpired
\* when the request arrived, whose role is not 'admin'
NonAdminSession(r) ==
  /\ r.op \in AdminRoutes
  /\ r.token.sig = "ok" /\ r.at < r.token.exp
  /\ r.token.role # "admin"

\* C1: on every admin-only endpoint a request with a valid, unexpired token of a
\* non-admin role is answered 403 in the step in which it arrives, and no step
\* of that request creates, changes or deletes a Member or News record or stores
\* or removes a file.
C1_NonAdminForbidden ==
  [][\A i \in 1..Len(reqs') :
       NonAdminSession(reqs'[i]) /\ Touched(i) =>
         /\ reqs'[i].pc = "done" /\ reqs'[i].status = 403
         /\ reqs'[i].stored = <<>> /\ reqs'[i].made = 0 /\ reqs'[i].unlinked = {}
         /\ UNCHANGED <<members, news, files>>]_vars

\* a non-admin DELETE of the existing news item was answered 403
C1_Witness ==
  \E i \in Requests :
    /\ NonAdminSession(reqs[i]) /\ reqs[i].op = "deleteNews" /\ reqs[i].id = 4
    /\ reqs[i].status = 403
    /\ \E n \in news : n.id = 4

\* ---- C2
\* r presents a token that login issued, more than one hour (one tick of the
\* clock) after it was issued
ExpiredSession(r) ==
  /\ r.op \in ProtectedRoutes
  /\ r.token \in issued
  /\ r.at > r.token.iat + 1

\* C2: a token issued by login at time t and presented later than t + 1 hour is
\* rejected on every protected endpoint: the request is answered with an error
\* in the step in which it arrives, and no handler, upload step or store
\* operation runs for it.
C2_ExpiredRejected ==
  [][\A i \in 1..Len(reqs') :
       ExpiredSession(reqs'[i]) /\ Touched(i) =>
         /\ reqs'[i].pc = "done" /\ reqs'[i].status \in {401, 403}
         /\ reqs'[i].fault = "none" /\ reqs'[i].parts = <<>>
         /\ reqs'[i].made = 0 /\ reqs'[i].unlinked = {}
         /\ UNCHANGED stores]_vars

\* the administrator's token, two hours old, was refused on an upload route
C2_Witness ==
  \E i \in Requests :
    /\ ExpiredSession(reqs[i]) /\ reqs[i].op = "createNews"
    /\ reqs[i].token.role = "admin" /\ reqs[i].status = 403

\* ---- C3
Images == {"image/jpeg", "image/jpg", "image/png"}
BadPhoto(file) == file.fieldname = "passportPhotos" /\ file.mimetype \notin Images
HasBadPhoto(r) == \E k \in 1..Len(r.parts) : BadPhoto(r.parts[k])

\* C3: a Create member request that has sent a file on the field passportPhotos
\* whose content type is not JPEG/PNG is answered 400; it has made no Member,
\* and no file it wrote is in the file area.
C3_BadPhotoRejected ==
  \A i \in Requests :
    reqs[i].op = "createMember" /\ HasBadPhoto(reqs[i]) =>
      /\ reqs[i].pc = "done" /\ reqs[i].status = 400
      /\ reqs[i].made = 0
      /\ \A p \in DOMAIN files : files[p][1] # i

\* the bad photo came second, after a file the request had already written
C3_Witness ==
  \E i \in Requests :
    /\ reqs[i].op = "createMember" /\ Len(reqs[i].parts) = 2
    /\ ~BadPhoto(reqs[i].parts[1]) /\ BadPhoto(reqs[i].parts[2])
    /\ Len(reqs[i].stored) = 1 /\ reqs[i].status = 400

\* ---- C4
Complete(body) == body.name # Missing /\ body.email # Missing /\ body.message # Missing
Saved(r) ==
  [id |-> r.made, name |-> r.body.name, email |-> r.body.email, message |-> r.body.message]

\* C4: for a Submit contact request with name, email and message present whose
\* save the store accepted, the Contact with those three fields is in the store
\* from the moment the relay is attempted, the response is 201 whichever way the
\* relay ends, and the Contact is still there, unchanged, after a relay failure.
C4_ContactKept ==
  \A i \in Requests :
    reqs[i].op = "contact" /\ Complete(reqs[i].body) /\ reqs[i].fault = "none" =>
      /\ reqs[i].pc \in {"relay", "done"}
      /\ Saved(reqs[i]) \in contacts
      /\ reqs[i].pc = "done" =>
           /\ reqs[i].status = 201
           /\ reqs[i].resp \in {<<"Message sent successfully">>,
                                <<"Message saved, but email notification failed">>}

\* the relay failed, the answer was 201 and the Contact is stored
C4_Witness ==
  \E i \in Requests :
    /\ reqs[i].op = "contact" /\ reqs[i].pc = "done" /\ reqs[i].status = 201
    /\ reqs[i].resp = <<"Message saved, but email notification failed">>
    /\ reqs[i].body = [name |-> "A", email |-> "a@b.com", message |-> "hi"]
    /\ Saved(reqs[i]) \in contacts

\* ---- C5
Deleted(r) == r.op = "deleteNews" /\ r.pc = "done" /\ r.status = 200

\* C5: once a Delete news request on an item with an image has been answered
\* 200, the file that was stored for that image is not in the file area, the
\* item is not in the store, and every List news answered from then on omits
\* the item.
C5_DeletedNewsGone ==
  [][/\ \A i \in 1..Len(reqs') :
          Deleted(reqs'[i]) /\ reqs'[i].doc.imageUrl # NoName =>
            /\ \A p \in DOMAIN files' : files'[p] \notin reqs'[i].unlinked
            /\ \A n \in news' : n.id # reqs'[i].id
     /\ \A i \in Requests, j \in 1..Len(reqs') :
          /\ Deleted(reqs[i]) /\ reqs[i].doc.imageUrl # NoName
          /\ j > Len(reqs) /\ reqs'[j].op = "listNews"
          => \A k \in 1..Len(reqs'[j].resp) : reqs'[j].resp[k] # reqs[i].id]_vars

\* the seeded item was deleted with its image, and a later listing was answered
C5_Witness ==
  \E i, j \in Requests :
    /\ i < j /\ Deleted(reqs[i]) /\ reqs[i].id = 4
    /\ reqs[i].unlinked = {<<0, 1>>} /\ DiskPath(SeedImage) \notin DOMAIN files
    /\ reqs[j].op = "listNews" /\ reqs[j].status = 200 /\ reqs[j].resp = <<>>

\* ---- C6
\* the password an account was registered with: the seeded administrator's, or
\* the one in the body of the Register request that made the account
RegisteredWith(u, password) ==
  \/ u = Admin /\ password = "p"
  \/ \E i \in Requests :
       reqs[i].op = "register" /\ reqs[i].made = u.id /\ reqs[i].body.password = password

Matches(body) ==
  \E u \in users : u.email = body.email /\ RegisteredWith(u, body.password)

C7_StoreFailureAnswered ==
  \A i \in Requests :
    reqs[i].fault = "store" => reqs[i].pc = "done" /\ reqs[i].status = 500

\* ---- C8
Answered(i) == reqs[i].pc # "done" /\ reqs'[i].pc = "done"

\* C8: no two User records share an email, and a Register request answered
\* while its email is already registered is answered 400 and adds no record.
C8_RegisterUnique ==
  [][/\ \A u, v \in users' : u.email = v.email => u = v
     /\ \A i \in Requests :
          /\ reqs[i].op = "register" /\ Answered(i)
          /\ \E u \in users : u.email = reqs[i].body.email
          => reqs'[i].status = 400 /\ users' = users]_vars

\* ---- C9
\* C9: no accepted upload is stored under the name of a file already in the
\* file area: what a path holds is never replaced.
C9_NoOverwrite ==
  [][\A p \in DOMAIN files \cap DOMAIN files' : files'[p] = files[p]]_vars

\* ---- C10
\* C10: the passportPhotos of a Member made by a Create member request are the
\* references of that request's files received on the passportPhotos field
\* with a content type of the allow-list, and of no other file.
C10_PhotosFromPhotoField ==
  \A i \in Requests : \A m \in members :
    reqs[i].op = "createMember" /\ reqs[i].made = m.id =>
      \A k \in 1..Len(m.passportPhotos) :
        \E j \in 1..Len(reqs[i].stored) :
          /\ m.passportPhotos[k] = Url(reqs[i].stored[j].filename)
          /\ reqs[i].stored[j].fieldname = "passportPhotos"
          /\ reqs[i].stored[j].mimetype \in Images

====
